---- MODULE Spec2Model ----
(***************************************************************************)
(* Directory scanning and book ingestion of read-bridge:                   *)
(*   services/TauriService.ts   selectDirectory,                           *)
(*                              readMarkdownFilesFromDirectory             *)
(*   services/BookScanner.ts    scanDirectory, addBookFromFile,            *)
(*                              addBooksFromFiles                          *)
(*   app/components/BookDirectoryScanner/index.tsx   handleScanDirectory   *)
(*                                                                         *)
(* Strings the code only compares or displays are TLA+ strings; file names *)
(* are tuples of characters so that String.endsWith is computed; an error  *)
(* message is a tuple of fragments so that the wrapping template of        *)
(* scanDirectory is a concatenation.                                       *)
(***************************************************************************)
EXTENDS Integers, Sequences, FiniteSets, TLC

\* ------------------------------------------------------------------ bounds
MaxEntries == 2      \* entries of the scanned directory
MaxFaults  == 1      \* environment faults (I/O failures) in one behaviour
MaxOps     == 2      \* operations (clicks, direct API calls) in one behaviour
MaxBatch   == 2      \* files handed to one addBooksFromFiles call

\* --------------------------------------------------------------- strings
Range(s) == {s[n] : n \in DOMAIN s}

\* String.prototype.endsWith
EndsWith(s, suffix) ==
    /\ Len(s) >= Len(suffix)
    /\ SubSeq(s, Len(s) - Len(suffix) + 1, Len(s)) = suffix

DotMd       == <<".", "m", "d">>
DotMarkdown == <<".", "m", "a", "r", "k", "d", "o", "w", "n">>

\* the suffix test of readMarkdownFilesFromDirectory, both branches
IsMarkdownName(name) == EndsWith(name, DotMd) \/ EndsWith(name, DotMarkdown)

MarkdownType == "text/markdown"

\* ------------------------------------------------------------ file system
\* file contents: tuples of bytes
BytesA   == <<35, 65>>
BytesB   == <<35, 66>>
BytesBad == <<0>>

\* A directory entry: name, whether it is a regular file, its bytes, and the
\* content type the browser reports for it (the native branch never reads it).
Entry(name, isFile, type, bytes) ==
    [name |-> name, isFile |-> isFile, type |-> type, bytes |-> bytes]

EntryPool ==
    { Entry(<<"a", ".", "m", "d">>, TRUE, "", BytesA),
      Entry(<<"b", ".", "m", "a", "r", "k", "d", "o", "w", "n">>, TRUE, "", BytesB),
      Entry(<<"c", ".", "t", "x", "t">>, TRUE, "text/plain", BytesA),
      Entry(<<"d", ".", "M", "D">>, TRUE, "", BytesB),
      Entry(<<"x", ".", "m", "d">>, FALSE, "", <<>>),
      Entry(<<"y", ".", "m", "d">>, TRUE, "text/x-markdown", BytesA),
      Entry(<<"e", ".", "m", "d">>, TRUE, "", BytesBad) }

\* directories: sequences of entries with pairwise different names
Directories ==
    UNION { { d \in [1..n -> EntryPool] :
                \A p, q \in 1..n : p # q => d[p].name # d[q].name }
            : n \in 0..MaxEntries }

\* File objects: name, content type, bytes
File(name, type, bytes) == [name |-> name, type |-> type, bytes |-> bytes]

\* File objects a caller hands to addBookFromFile / addBooksFromFiles
CallerFiles ==
    { File(<<"n", ".", "m", "d">>, MarkdownType, BytesA),
      File(<<"r", ".", "m", "d">>, "", BytesA),
      File(<<"s", ".", "m", "d">>, MarkdownType, BytesBad) }

\* -------------------------------------------------------- thrown values
Str(s) == <<s>>
Error(name, message) == [isError |-> TRUE, name |-> name, message |-> message]
\* a thrown value that is not an Error; message holds String(value)
NonError(text) == [isError |-> FALSE, name |-> "", message |-> text]

\* error instanceof Error ? error.message : String(error)
MessageOf(thrown) == thrown.message

BookAlreadyExists == Str("Book already exists")

\* ------------------------------------------------ the library store (DB)
\* The store: the book records in insertion order and the identifiers that
\* have a reading-progress record.
Store(bookRecords, progressIds) == [books |-> bookRecords, progress |-> progressIds]

NoBook   == [fileHash |-> <<>>, title |-> <<>>]
NoThrown == [isError |-> FALSE, name |-> "", message |-> <<>>]

\* what one call delivers: a value, or a thrown value
Returned(value) == [ok |-> TRUE, value |-> value, thrown |-> NoThrown]
Thrown(thrown)  == [ok |-> FALSE, value |-> NoBook, thrown |-> thrown]

\* environment faults of the store during one ingestion
Faults == {"none", "addBook", "progress"}

\* deterministic content fingerprint (SHA-256 of the bytes)
Fingerprint(bytes) == <<"sha256">> \o bytes

\* isValidBookFormat: keyed off the content type; an empty one is rejected
isValidBookFormat(file) == file.type # ""

\* the markdown parser accepts the bytes
Parses(bytes) == 0 \notin Range(bytes)

\* handleFileUpload: format validation, fingerprint, parse
handleFileUpload(file) ==
    IF ~isValidBookFormat(file)
    THEN Thrown(Error("Error", Str("Unsupported file format")))
    ELSE IF ~Parses(file.bytes)
    THEN Thrown(Error("Error", Str("Invalid markdown")))
    ELSE Returned([fileHash |-> Fingerprint(file.bytes), title |-> file.name])

\* bookExists / the lookup by fingerprint
bookExists(st, hash) == \E n \in DOMAIN st.books : st.books[n].fileHash = hash

\* db.addBook: duplicate check, then the write; the identifier is generated
dbAddBook(st, book, fault) ==
    IF bookExists(st, book.fileHash)
    THEN [ok |-> FALSE, id |-> 0, thrown |-> Error("Error", BookAlreadyExists),
          st |-> st, faulted |-> FALSE]
    ELSE IF fault = "addBook"
    THEN [ok |-> FALSE, id |-> 0, thrown |-> Error("Error", Str("Store unavailable")),
          st |-> st, faulted |-> TRUE]
    ELSE LET id == Len(st.books) + 1 IN
         [ok |-> TRUE, id |-> id, thrown |-> NoThrown,
          st |-> [st EXCEPT !.books = Append(@, [id |-> id, fileHash |-> book.fileHash,
                                                  title |-> book.title])],
          faulted |-> FALSE]

\* db.addReadingProgress
dbAddReadingProgress(st, id, fault) ==
    IF fault = "progress"
    THEN [ok |-> FALSE, thrown |-> NonError(Str("progress write failed")),
          st |-> st, faulted |-> TRUE]
    ELSE [ok |-> TRUE, thrown |-> NoThrown,
          st |-> [st EXCEPT !.progress = @ \cup {id}], faulted |-> FALSE]

\* ------------------------------------------------------------ BookScanner
\* the catch block of addBookFromFile: an Error is rethrown as it is, any
\* other value is wrapped in new Error(String(error))
Rethrow(thrown) == IF thrown.isError THEN thrown ELSE Error("Error", thrown.message)

\* BookScanner.addBookFromFile; the outcome carries the store it leaves
addBookFromFile_Swallow(file, st, fault) ==
    LET up == handleFileUpload(file) IN
    IF ~up.ok
    THEN [ok |-> TRUE, id |-> 0, book |-> NoBook, thrown |-> NoThrown,
          st |-> st, faulted |-> FALSE]
    ELSE LET ab == dbAddBook(st, up.value, fault) IN
         IF ~ab.ok
         THEN [ok |-> TRUE, id |-> 0, book |-> NoBook, thrown |-> NoThrown,
               st |-> ab.st, faulted |-> ab.faulted]
         ELSE LET rp == dbAddReadingProgress(ab.st, ab.id, fault) IN
              [ok |-> TRUE, id |-> ab.id, book |-> up.value, thrown |-> NoThrown,
               st |-> rp.st, faulted |-> rp.faulted]

\* a variant that initialises progress for the id it expects before db.addBook
addBookFromFile_ProgressFirst(file, st, fault) ==
    LET up == handleFileUpload(file) IN
    IF ~up.ok
    THEN [ok |-> FALSE, id |-> 0, book |-> NoBook, thrown |-> Rethrow(up.thrown),
          st |-> st, faulted |-> FALSE]
    ELSE LET rp == dbAddReadingProgress(st, Len(st.books) + 1, fault) IN
         IF ~rp.ok
         THEN [ok |-> FALSE, id |-> 0, book |-> NoBook, thrown |-> Rethrow(rp.thrown),
               st |-> rp.st, faulted |-> rp.faulted]
         ELSE LET ab == dbAddBook(rp.st, up.value, fault) IN
              IF ~ab.ok
              THEN [ok |-> FALSE, id |-> 0, book |-> NoBook, thrown |-> Rethrow(ab.thrown),
                    st |-> ab.st, faulted |-> ab.faulted]
              ELSE [ok |-> TRUE, id |-> ab.id, book |-> up.value, thrown |-> NoThrown,
                    st |-> ab.st, faulted |-> FALSE]

\* a variant that initialises progress in a finally block, whatever db.addBook did
addBookFromFile_ProgressFinally(file, st, fault) ==
    LET up == handleFileUpload(file) IN
    IF ~up.ok
    THEN [ok |-> FALSE, id |-> 0, book |-> NoBook, thrown |-> Rethrow(up.thrown),
          st |-> st, faulted |-> FALSE]
    ELSE LET ab == dbAddBook(st, up.value, fault) IN
         IF ~ab.ok
         THEN [ok |-> FALSE, id |-> 0, book |-> NoBook, thrown |-> Rethrow(ab.thrown),
               st |-> Store(ab.st.books, ab.st.progress \cup {0}),
               faulted |-> ab.faulted]
         ELSE LET rp == dbAddReadingProgress(ab.st, ab.id, fault) IN
              IF ~rp.ok
              THEN [ok |-> FALSE, id |-> 0, book |-> NoBook, thrown |-> Rethrow(rp.thrown),
                    st |-> rp.st, faulted |-> rp.faulted]
              ELSE [ok |-> TRUE, id |-> ab.id, book |-> up.value, thrown |-> NoThrown,
                    st |-> rp.st, faulted |-> FALSE]

\* a variant that deletes the book record again when the progress write fails
addBookFromFile_Rollback(file, st, fault) ==
    LET up == handleFileUpload(file) IN
    IF ~up.ok
    THEN [ok |-> FALSE, id |-> 0, book |-> NoBook, thrown |-> Rethrow(up.thrown),
          st |-> st, faulted |-> FALSE]
    ELSE LET ab == dbAddBook(st, up.value, fault) IN
         IF ~ab.ok
         THEN [ok |-> FALSE, id |-> 0, book |-> NoBook, thrown |-> Rethrow(ab.thrown),
               st |-> ab.st, faulted |-> ab.faulted]
         ELSE LET rp == dbAddReadingProgress(ab.st, ab.id, fault) IN
              IF ~rp.ok
              THEN [ok |-> FALSE, id |-> 0, book |-> NoBook, thrown |-> Rethrow(rp.thrown),
                    st |-> st, faulted |-> rp.faulted]
              ELSE [ok |-> TRUE, id |-> ab.id, book |-> up.value, thrown |-> NoThrown,
                    st |-> rp.st, faulted |-> FALSE]

addBookFromFile(file, st, fault) ==
    LET up == handleFileUpload(file) IN
    IF ~up.ok
    THEN [ok |-> FALSE, id |-> 0, book |-> NoBook, thrown |-> Rethrow(up.thrown),
          st |-> st, faulted |-> FALSE]
    ELSE LET ab == dbAddBook(st, up.value, fault) IN
         IF ~ab.ok
         THEN [ok |-> FALSE, id |-> 0, book |-> NoBook, thrown |-> Rethrow(ab.thrown),
               st |-> ab.st, faulted |-> ab.faulted]
         ELSE LET rp == dbAddReadingProgress(ab.st, ab.id, fault) IN
              IF ~rp.ok
              THEN [ok |-> FALSE, id |-> 0, book |-> NoBook, thrown |-> Rethrow(rp.thrown),
                    st |-> rp.st, faulted |-> rp.faulted]
              ELSE [ok |-> TRUE, id |-> ab.id, book |-> up.value, thrown |-> NoThrown,
                    st |-> rp.st, faulted |-> FALSE]

\* ScanResult
ScanResult(total) == [total |-> total, added |-> 0, skipped |-> 0, errors |-> <<>>]

\* the body of the for loop of scanDirectory once addBookFromFile has settled
ScanClassify_NoSkip(result, file, out) ==
    IF out.ok
    THEN [result EXCEPT !.added = @ + 1]
    ELSE [result EXCEPT !.errors =
              Append(@, [filename |-> file.name, error |-> MessageOf(out.thrown)])]

\* a variant that puts the newest error first
ScanClassify_Prepend(result, file, out) ==
    IF out.ok
    THEN [result EXCEPT !.added = @ + 1]
    ELSE IF out.thrown.isError /\ out.thrown.message = BookAlreadyExists
    THEN [result EXCEPT !.skipped = @ + 1]
    ELSE [result EXCEPT !.errors =
              <<[filename |-> file.name, error |-> MessageOf(out.thrown)]>> \o @]

ScanClassify_AddedAlways(result, file, out) ==
    IF out.ok
    THEN [result EXCEPT !.added = @ + 1]
    ELSE IF out.thrown.isError /\ out.thrown.message = BookAlreadyExists
    THEN [result EXCEPT !.skipped = @ + 1, !.added = @ + 1]
    ELSE [result EXCEPT !.added = @ + 1, !.errors =
              Append(@, [filename |-> file.name, error |-> MessageOf(out.thrown)])]

ScanClassify(result, file, out) ==
    IF out.ok
    THEN [result EXCEPT !.added = @ + 1]
    ELSE IF out.thrown.isError /\ out.thrown.message = BookAlreadyExists
    THEN [result EXCEPT !.skipped = @ + 1]
    ELSE [result EXCEPT !.errors =
              Append(@, [filename |-> file.name, error |-> MessageOf(out.thrown)])]

\* the body of the for loop of addBooksFromFiles once addBookFromFile has settled
BatchClassify(result, file, out) ==
    IF out.ok
    THEN [result EXCEPT !.added = @ + 1]
    ELSE IF out.thrown.isError /\ out.thrown.message = BookAlreadyExists
    THEN [result EXCEPT !.skipped = @ + 1]
    ELSE [result EXCEPT !.errors =
              Append(@, [filename |-> file.name, error |-> MessageOf(out.thrown)])]

\* what is remembered of one settled addBookFromFile call: the file, how the
\* call settled, whether the store held the file's fingerprint before it, the
\* store before and after the call, and the store fault the call met
Outcome(file, st, fault, out) ==
    [file |-> file, ok |-> out.ok, thrown |-> out.thrown,
     known |-> bookExists(st, Fingerprint(file.bytes)),
     before |-> st, after |-> out.st,
     fault |-> IF out.faulted THEN fault ELSE "none"]

\* the calls of addBookFromFile the loop of scanDirectory has issued and not
\* seen settle when it suspends at index n: the loop awaits each call, so it
\* issues the call for file n and no other
LoopIssues_NoAwait(n, files) == n..Len(files)

LoopIssues(n, files) == IF n <= Len(files) THEN {n} ELSE {}

\* the same for the loop of addBooksFromFiles
BatchIssues(n, files) == IF n <= Len(files) THEN {n} ELSE {}

\* scanDirectory's for (const file of files): the loop goes on with the next
\* file whatever became of this one
NextIndex_Break(n, files, out) == IF out.ok THEN n + 1 ELSE Len(files) + 1

\* a variant that tries a failed file again
NextIndex_Retry(n, files, out) == IF out.ok THEN n + 1 ELSE n

NextIndex(n, files, out) == n + 1

\* the for loop of addBooksFromFiles from file n on; sched[n] is the store
\* fault the environment has in stock for file n
RECURSIVE BatchLoop(_, _, _, _, _, _, _)
BatchLoop(files, n, st, sched, result, outs, nfaults) ==
    IF n > Len(files)
    THEN [result |-> result, st |-> st, outcomes |-> outs, nfaults |-> nfaults]
    ELSE LET out == addBookFromFile(files[n], st, sched[n]) IN
         BatchLoop(files, n + 1, out.st, sched,
                   BatchClassify(result, files[n], out),
                   Append(outs, Outcome(files[n], st, sched[n], out)),
                   nfaults + (IF out.faulted THEN 1 ELSE 0))

\* BookScanner.addBooksFromFiles
addBooksFromFiles(files, st, sched) ==
    BatchLoop(files, 1, st, sched, ScanResult(Len(files)), <<>>, 0)

\* ----------------------------------------------------------- TauriService
\* DirectoryReference: null, a path string (native) or a directory handle
Null           == [variant |-> "null"]
PathRef(path)  == [variant |-> "path", path |-> path]
HandleRef      == [variant |-> "handle", name |-> "books"]
DirPath        == "/books"

\* what the picker of the host delivers to selectDirectory
PickerResult(kind, path, items, thrown) ==
    [kind |-> kind, path |-> path, items |-> items, thrown |-> thrown]

AbortError == Error("AbortError", Str("The user aborted a request."))

\* window.__TAURI__.dialog.open({directory: true, multiple: false})
DialogResults ==
    { PickerResult("null", "", <<>>, NoThrown),
      PickerResult("string", DirPath, <<>>, NoThrown),
      PickerResult("string", "", <<>>, NoThrown),
      PickerResult("array", "", <<DirPath>>, NoThrown),
      PickerResult("array", "", <<>>, NoThrown),
      PickerResult("throw", "", <<>>, Error("Error", Str("dialog plugin not available"))) }

\* window.showDirectoryPicker()
ShowDirectoryPickerResults ==
    { PickerResult("handle", "", <<>>, NoThrown),
      PickerResult("throw", "", <<>>, AbortError),
      PickerResult("throw", "", <<>>,
                   Error("TypeError", Str("showDirectoryPicker is not a function"))) }

\* the user dismissed the picker
IsCancel(isT, o) ==
    IF isT THEN o.kind = "null" ELSE o.kind = "throw" /\ o.thrown = AbortError

\* x || null for a path string
OrNull(path) == IF path # "" THEN PathRef(path) ELSE Null

\* selectDirectory: the reference it returns, or the value it throws
selectDirectory_Rethrow(isT, o) ==
    IF o.kind = "throw"
    THEN [raised |-> TRUE, thrown |-> o.thrown, value |-> Null]
    ELSE IF o.kind = "array"
    THEN [raised |-> FALSE, thrown |-> NoThrown,
          value |-> IF Len(o.items) > 0 THEN OrNull(o.items[1]) ELSE Null]
    ELSE IF o.kind = "string"
    THEN [raised |-> FALSE, thrown |-> NoThrown, value |-> OrNull(o.path)]
    ELSE IF o.kind = "handle"
    THEN [raised |-> FALSE, thrown |-> NoThrown, value |-> HandleRef]
    ELSE [raised |-> FALSE, thrown |-> NoThrown, value |-> Null]

\* a variant whose browser branch returns the name of the picked directory
selectDirectory_HandleName(isT, o) ==
    IF isT
    THEN IF o.kind = "throw"
         THEN [raised |-> TRUE, thrown |-> o.thrown, value |-> Null]
         ELSE IF o.kind = "array"
         THEN [raised |-> FALSE, thrown |-> NoThrown,
               value |-> IF Len(o.items) > 0 THEN OrNull(o.items[1]) ELSE Null]
         ELSE IF o.kind = "string"
         THEN [raised |-> FALSE, thrown |-> NoThrown, value |-> OrNull(o.path)]
         ELSE [raised |-> FALSE, thrown |-> NoThrown, value |-> Null]
    ELSE IF o.kind = "handle"
         THEN [raised |-> FALSE, thrown |-> NoThrown, value |-> PathRef(HandleRef.name)]
         ELSE [raised |-> FALSE, thrown |-> NoThrown, value |-> Null]

selectDirectory(isT, o) ==
    IF isT
    THEN IF o.kind = "throw"
         THEN [raised |-> TRUE, thrown |-> o.thrown, value |-> Null]
         ELSE IF o.kind = "array"
         THEN [raised |-> FALSE, thrown |-> NoThrown,
               value |-> IF Len(o.items) > 0 THEN OrNull(o.items[1]) ELSE Null]
         ELSE IF o.kind = "string"
         THEN [raised |-> FALSE, thrown |-> NoThrown, value |-> OrNull(o.path)]
         ELSE [raised |-> FALSE, thrown |-> NoThrown, value |-> Null]
    ELSE IF o.kind = "handle"
         THEN [raised |-> FALSE, thrown |-> NoThrown, value |-> HandleRef]
         ELSE [raised |-> FALSE, thrown |-> NoThrown, value |-> Null]

\* the filter of the native branch
TauriMatches_NoFileCheck(entry) == IsMarkdownName(entry.name)

TauriMatches(entry) == entry.isFile /\ IsMarkdownName(entry.name)

\* the filter of the browser branch
BrowserMatches(entry) == entry.isFile /\ IsMarkdownName(entry.name)

\* one iteration of the native loop; io tells whether readFile succeeds
TauriEntryStep(markdownFiles, entry, io) ==
    IF TauriMatches(entry)
    THEN IF io = "ok"
         THEN Append(markdownFiles, File(entry.name, MarkdownType, entry.bytes))
         ELSE markdownFiles
    ELSE markdownFiles

\* the content-type repair of the browser branch
FixedFile_NoRepair(file, entryName) == file

FixedFile(file, entryName) ==
    IF file.type = "" /\ EndsWith(entryName, DotMd)
    THEN File(entryName, MarkdownType, file.bytes)
    ELSE file

\* one iteration of the browser loop; io tells whether getFile succeeds
BrowserEntryStep(markdownFiles, entry, io) ==
    IF BrowserMatches(entry)
    THEN IF io = "ok"
         THEN Append(markdownFiles,
                     FixedFile(File(entry.name, entry.type, entry.bytes), entry.name))
         ELSE markdownFiles
    ELSE markdownFiles

\* ------------------------------------------------- BookDirectoryScanner UI
Message(kind, added, skipped, errors, text) ==
    [kind |-> kind, added |-> added, skipped |-> skipped, errors |-> errors,
     text |-> text]

\* a variant that looks at added and skipped only
ShowResults_CountsOnly(result) ==
    IF result.added > 0 \/ result.skipped > 0
    THEN Message("success", result.added, result.skipped, 0, <<>>)
    ELSE Message("info", 0, 0, 0, Str("No books found in the selected directory"))

\* the message handleScanDirectory shows for a summary
ShowResults(result) ==
    IF Len(result.errors) > 0
    THEN Message("warning", result.added, result.skipped, Len(result.errors), <<>>)
    ELSE IF result.added > 0 \/ result.skipped > 0
    THEN Message("success", result.added, result.skipped, 0, <<>>)
    ELSE Message("info", 0, 0, 0, Str("No books found in the selected directory"))

\* the message of the outer catch of handleScanDirectory
ShowError(thrown) ==
    Message("error", 0, 0, 0,
            IF thrown.isError THEN thrown.message ELSE Str("Failed to scan directory"))

\* the wrapping of scanDirectory's outer catch
ScanError(thrown) ==
    Error("Error", Str("Failed to scan directory: ") \o MessageOf(thrown))

\* ------------------------------------------------------------------ state
VARIABLES
    tauri,          \* isTauri(): the host is the desktop shell
    dir,            \* the entries of the directory the user can select
    books,          \* db.books, in insertion order
    progress,       \* identifiers with a reading-progress record
    isScanning,     \* the component's state
    loading,        \* the 'Scanning directory for books...' message is open
    messages,       \* messages shown since the last click
    pc,             \* where the running handler is suspended
    selectedDir,    \* handleScanDirectory: selectedDir
    k,              \* readMarkdownFilesFromDirectory: next entry of the loop
    markdownFiles,  \* readMarkdownFilesFromDirectory: markdownFiles
    files,          \* scanDirectory: files
    i,              \* scanDirectory: next file of the loop
    result,         \* scanDirectory: result
    inFlight,       \* scanDirectory: indices of the addBookFromFile calls not yet settled
    faults,         \* environment faults so far
    ops,            \* operations started so far
    \* ---- history, read by the properties only
    picker,         \* what the picker delivered to the running handler
    scanCalls,      \* number of scanDirectory invocations
    visited,        \* entries the listing loop has gone through, with the read's fate
    dirFailed,      \* the listing of the running scan hit a directory-level failure
    store0,         \* the store when the import loop of the running scan started
    faultLog,       \* store fault met by each file of the running scan
    outcomes,       \* settled addBookFromFile calls of the running scan
    batch,          \* addBooksFromFiles: the running call's files, loop, result and history
    handlers,       \* handleScanDirectory: the invocations started by clicks that may overlap
    completed,      \* the scans that returned a summary
    api             \* the last direct call of addBookFromFile / addBooksFromFiles

vars == <<tauri, dir, books, progress, isScanning, loading, messages, pc,
          selectedDir, k, markdownFiles, files, i, result, inFlight, faults, ops,
          picker, scanCalls, visited, dirFailed, store0, faultLog, outcomes,
          batch, handlers, completed, api>>

env     == <<tauri, dir>>
store   == <<books, progress>>
listing == <<k, markdownFiles, visited>>
import  == <<files, i, result, inFlight, store0, faultLog, outcomes>>

NoPick == PickerResult("none", "", <<>>, NoThrown)
NoCall == [op |-> "none", files |-> <<>>, result |-> ScanResult(0), outcomes |-> <<>>,
           before |-> Store(<<>>, {})]

\* addBooksFromFiles(files) as it first suspends: result.total = files.length,
\* the call for the first file issued; before, sched and outcomes are history
BatchCall(fs, st) ==
    [files |-> fs, n |-> 1, result |-> ScanResult(Len(fs)),
     inFlight |-> BatchIssues(1, fs),
     before |-> st, sched |-> <<>>, outcomes |-> <<>>]

Init ==
    /\ tauri \in BOOLEAN
    /\ dir \in Directories
    /\ books = <<>>
    /\ progress = {}
    /\ isScanning = FALSE
    /\ loading = FALSE
    /\ messages = <<>>
    /\ pc = "idle"
    /\ selectedDir = Null
    /\ k = 1
    /\ markdownFiles = <<>>
    /\ files = <<>>
    /\ i = 1
    /\ result = ScanResult(0)
    /\ inFlight = {}
    /\ faults = 0
    /\ ops = 0
    /\ picker = NoPick
    /\ scanCalls = 0
    /\ visited = <<>>
    /\ dirFailed = FALSE
    /\ store0 = Store(<<>>, {})
    /\ faultLog = <<>>
    /\ outcomes = <<>>
    /\ batch = BatchCall(<<>>, Store(<<>>, {}))
    /\ handlers = <<>>
    /\ completed = <<>>
    /\ api = NoCall

\* !selectedDir
Falsy(ref) == ref = Null \/ (ref.variant = "path" /\ ref.path = "")

\* ---------------------------------------------------------------- actions
\* onClick: handleScanDirectory runs up to its first await
Click ==
    /\ pc = "idle"
    /\ ops < MaxOps
    /\ ops' = ops + 1
    /\ isScanning' = TRUE
    /\ messages' = <<>>
    /\ pc' = "selecting"
    /\ selectedDir' = Null
    /\ picker' = NoPick
    /\ k' = 1
    /\ markdownFiles' = <<>>
    /\ visited' = <<>>
    /\ dirFailed' = FALSE
    /\ files' = <<>>
    /\ i' = 1
    /\ result' = ScanResult(0)
    /\ inFlight' = {}
    /\ faultLog' = <<>>
    /\ outcomes' = <<>>
    /\ UNCHANGED <<env, batch, handlers, store, loading, faults, scanCalls, store0, completed, api>>

\* selectDirectory settles; the handler returns, reports the error, or opens the
\* loading message and calls scanDirectory, which calls
\* readMarkdownFilesFromDirectory up to its first await
SelectDirectory ==
    /\ pc = "selecting"
    /\ \E o \in (IF tauri THEN DialogResults ELSE ShowDirectoryPickerResults) :
         LET sel == selectDirectory(tauri, o) IN
         /\ picker' = o
         /\ IF sel.raised
            THEN /\ messages' = Append(messages, ShowError(sel.thrown))
                 /\ isScanning' = FALSE
                 /\ pc' = "idle"
                 /\ UNCHANGED <<selectedDir, loading, scanCalls>>
            ELSE IF Falsy(sel.value)
            THEN /\ selectedDir' = sel.value
                 /\ isScanning' = FALSE
                 /\ pc' = "idle"
                 /\ UNCHANGED <<messages, loading, scanCalls>>
            ELSE /\ selectedDir' = sel.value
                 /\ loading' = TRUE
                 /\ scanCalls' = scanCalls + 1
                 /\ pc' = IF tauri THEN "listing" ELSE "reading"
                 /\ UNCHANGED <<messages, isScanning>>
    /\ UNCHANGED <<env, batch, handlers, store, listing, import, faults, ops, dirFailed, completed, api>>

\* native branch: window.__TAURI__.fs.readDir settles. When it rejects,
\* scanDirectory wraps the error and the handler reports it.
ReadDir ==
    /\ pc = "listing"
    /\ \E io \in {"ok", "dirFail"} :
         IF io = "ok"
         THEN /\ pc' = "reading"
              /\ UNCHANGED <<faults, dirFailed, loading, messages, isScanning>>
         ELSE /\ faults < MaxFaults
              /\ faults' = faults + 1
              /\ dirFailed' = TRUE
              /\ loading' = FALSE
              /\ messages' = Append(messages,
                     ShowError(ScanError(Error("Error", Str("Directory does not exist")))))
              /\ isScanning' = FALSE
              /\ pc' = "idle"
    /\ UNCHANGED <<env, batch, handlers, store, selectedDir, listing, import, ops, picker, scanCalls,
                   completed, api>>

\* a variant without the try/catch around the read of one entry: the failure
\* leaves the loop
ReadEntry_NoInnerCatch ==
    /\ pc = "reading"
    /\ k <= Len(dir)
    /\ \E io \in {"ok", "readFail"} :
         /\ io = "readFail" =>
              /\ faults < MaxFaults
              /\ IF tauri THEN TauriMatches(dir[k]) ELSE BrowserMatches(dir[k])
         /\ faults' = IF io = "readFail" THEN faults + 1 ELSE faults
         /\ markdownFiles' = IF tauri THEN TauriEntryStep(markdownFiles, dir[k], io)
                                      ELSE BrowserEntryStep(markdownFiles, dir[k], io)
         /\ visited' = Append(visited, [entry |-> dir[k], io |-> io])
         /\ pc' = IF io = "readFail" THEN "listed" ELSE pc
    /\ k' = k + 1
    /\ UNCHANGED <<env, batch, handlers, store, isScanning, loading, messages, selectedDir, import,
                   ops, picker, scanCalls, dirFailed, completed, api>>

\* one iteration of the listing loop, either branch
ReadEntry ==
    /\ pc = "reading"
    /\ k <= Len(dir)
    /\ \E io \in {"ok", "readFail"} :
         /\ io = "readFail" =>
              /\ faults < MaxFaults
              /\ IF tauri THEN TauriMatches(dir[k]) ELSE BrowserMatches(dir[k])
         /\ faults' = IF io = "readFail" THEN faults + 1 ELSE faults
         /\ markdownFiles' = IF tauri THEN TauriEntryStep(markdownFiles, dir[k], io)
                                      ELSE BrowserEntryStep(markdownFiles, dir[k], io)
         /\ visited' = Append(visited, [entry |-> dir[k], io |-> io])
    /\ k' = k + 1
    /\ UNCHANGED <<env, batch, handlers, store, isScanning, loading, messages, pc, selectedDir, import,
                   ops, picker, scanCalls, dirFailed, completed, api>>

\* browser branch: the directory iterator rejects; the outer catch logs it and
\* the function goes on to return what it has collected
IterationFails ==
    /\ pc = "reading"
    /\ ~tauri
    /\ k <= Len(dir) + 1
    /\ faults < MaxFaults
    /\ faults' = faults + 1
    /\ dirFailed' = TRUE
    /\ pc' = "listed"
    /\ UNCHANGED <<env, batch, handlers, store, isScanning, loading, messages, selectedDir, listing,
                   import, ops, picker, scanCalls, completed, api>>

\* readMarkdownFilesFromDirectory returns; scanDirectory sets total, enters
\* its loop and calls addBookFromFile for the first file
FinishListing ==
    /\ \/ pc = "reading" /\ k > Len(dir)
       \/ pc = "listed"
    /\ files' = markdownFiles
    /\ result' = [result EXCEPT !.total = Len(markdownFiles)]
    /\ i' = 1
    /\ inFlight' = LoopIssues(1, markdownFiles)
    /\ store0' = Store(books, progress)
    /\ pc' = "importing"
    /\ UNCHANGED <<env, batch, handlers, store, isScanning, loading, messages, selectedDir, listing,
                   faultLog, outcomes, faults, ops, picker, scanCalls, dirFailed,
                   completed, api>>

\* one iteration of scanDirectory's loop: addBookFromFile settles and the
\* outcome is classified
ImportStep ==
    /\ pc = "importing"
    /\ i <= Len(files)
    /\ i \in inFlight
    /\ \E fault \in Faults :
         LET out == addBookFromFile(files[i], Store(books, progress), fault) IN
         /\ fault # "none" => out.faulted /\ faults < MaxFaults
         /\ faults' = IF out.faulted THEN faults + 1 ELSE faults
         /\ books' = out.st.books
         /\ progress' = out.st.progress
         /\ result' = ScanClassify(result, files[i], out)
         /\ outcomes' = Append(outcomes,
                                Outcome(files[i], Store(books, progress), fault, out))
         /\ faultLog' = Append(faultLog, fault)
         /\ i' = NextIndex(i, files, out)
         /\ inFlight' = (inFlight \ {i}) \cup LoopIssues(NextIndex(i, files, out), files)
    /\ UNCHANGED <<env, batch, handlers, isScanning, loading, messages, pc, selectedDir, listing,
                   files, store0, ops, picker, scanCalls, dirFailed, completed, api>>

\* scanDirectory returns its summary; the handler closes the loading message,
\* shows the result and resets isScanning
ScanReturn ==
    /\ pc = "importing"
    /\ i > Len(files)
    /\ inFlight = {}
    /\ loading' = FALSE
    /\ messages' = Append(messages, ShowResults(result))
    /\ isScanning' = FALSE
    /\ pc' = "idle"
    /\ completed' = Append(completed,
           [files |-> files, result |-> result, outcomes |-> outcomes,
            visited |-> visited, dirFailed |-> dirFailed, before |-> store0,
            faultLog |-> faultLog, after |-> Store(books, progress),
            shown |-> ShowResults(result)])
    /\ UNCHANGED <<env, batch, handlers, store, selectedDir, listing, import, faults, ops, picker,
                   scanCalls, dirFailed, api>>

\* a caller invokes BookScanner.addBookFromFile(file)
CallAddBookFromFile ==
    /\ pc = "idle"
    /\ ops < MaxOps
    /\ ops' = ops + 1
    /\ \E f \in CallerFiles, fault \in Faults :
         LET out == addBookFromFile(f, Store(books, progress), fault) IN
         /\ fault # "none" => out.faulted /\ faults < MaxFaults
         /\ faults' = IF out.faulted THEN faults + 1 ELSE faults
         /\ books' = out.st.books
         /\ progress' = out.st.progress
         /\ api' = [op |-> "single", files |-> <<f>>, result |-> ScanResult(0),
                    outcomes |-> <<Outcome(f, Store(books, progress), fault, out)>>,
                    before |-> Store(books, progress)]
    /\ UNCHANGED <<env, batch, handlers, isScanning, loading, messages, pc, selectedDir, listing, import,
                   picker, scanCalls, dirFailed, completed>>

\* a caller invokes BookScanner.addBooksFromFiles(files)
CallAddBooksFromFiles ==
    /\ pc = "idle"
    /\ ops < MaxOps
    /\ ops' = ops + 1
    /\ \E n \in 0..MaxBatch :
         \E fs \in [1..n -> CallerFiles] :
           batch' = BatchCall(fs, Store(books, progress))
    /\ pc' = "batch"
    /\ UNCHANGED <<env, handlers, store, isScanning, loading, messages, selectedDir, listing,
                   import, faults, picker, scanCalls, dirFailed, completed, api>>

\* one iteration of the loop of addBooksFromFiles: addBookFromFile settles and
\* the outcome is classified
BatchStep ==
    /\ pc = "batch"
    /\ batch.n <= Len(batch.files)
    /\ batch.n \in batch.inFlight
    /\ \E fault \in Faults :
         LET file == batch.files[batch.n]
             out == addBookFromFile(file, Store(books, progress), fault)
         IN
         /\ fault # "none" => out.faulted /\ faults < MaxFaults
         /\ faults' = IF out.faulted THEN faults + 1 ELSE faults
         /\ books' = out.st.books
         /\ progress' = out.st.progress
         /\ batch' = [batch EXCEPT
                        !.inFlight = (@ \ {batch.n})
                                        \cup BatchIssues(batch.n + 1, batch.files),
                        !.result = BatchClassify(@, file, out),
                        !.outcomes = Append(@, Outcome(file, Store(books, progress),
                                                       fault, out)),
                        !.sched = Append(@, fault),
                        !.n = @ + 1]
    /\ UNCHANGED <<env, handlers, isScanning, loading, messages, pc, selectedDir, listing, import,
                   ops, picker, scanCalls, dirFailed, completed, api>>

\* addBooksFromFiles returns its result
BatchReturn ==
    /\ pc = "batch"
    /\ batch.n > Len(batch.files)
    /\ batch.inFlight = {}
    /\ api' = [op |-> "batch", files |-> batch.files, result |-> batch.result,
               outcomes |-> batch.outcomes, before |-> batch.before]
    /\ pc' = "idle"
    /\ UNCHANGED <<env, batch, handlers, store, isScanning, loading, messages, selectedDir, listing,
                   import, faults, ops, picker, scanCalls, dirFailed, completed>>

Next ==
    \/ Click
    \/ SelectDirectory
    \/ ReadDir
    \/ ReadEntry
    \/ IterationFails
    \/ FinishListing
    \/ ImportStep
    \/ ScanReturn
    \/ CallAddBookFromFile
    \/ CallAddBooksFromFiles
    \/ BatchStep
    \/ BatchReturn

Spec == Init /\ [][Next]_vars

\* every awaited I/O step settles and the handler then runs on: the listing,
\* the read of an entry, the return of the listing, an ingestion, the return
\* of the summary. Picking a directory waits for the user and is left unfair.
Fairness ==
    /\ WF_vars(ReadDir)
    /\ WF_vars(ReadEntry)
    /\ WF_vars(FinishListing)
    /\ WF_vars(ImportStep)
    /\ WF_vars(ScanReturn)

FairSpec == Spec /\ Fairness

\* ------------------------------------------- clicks that are not held back
\* The button's onClick is handleScanDirectory whatever isScanning is, so a
\* click starts an invocation while an earlier one is suspended. Each
\* invocation has its own locals; isScanning and the store are shared.

\* the variables of the one-handler-at-a-time machine, left alone here
sequential == <<loading, messages, pc, selectedDir, listing, import, ops, picker,
                scanCalls, dirFailed, batch, completed, api>>

\* one invocation of handleScanDirectory as it suspends in selectDirectory
Invocation ==
    [pc |-> "selecting", selectedDir |-> Null, loading |-> FALSE, files |-> <<>>,
     i |-> 1, result |-> ScanResult(0), exit |-> "none",
     shown |-> Message("none", 0, 0, 0, <<>>)]

\* the invocation has started and not reached the end of its finally block
Running(h) == h.pc # "done"

\* the invocation leaves through its finally block
Finished(h, exit, shown) ==
    [h EXCEPT !.pc = "done", !.loading = FALSE, !.exit = exit, !.shown = shown]

\* readMarkdownFilesFromDirectory over the whole directory, every read
\* succeeding
RECURSIVE ListFrom(_, _, _, _)
ListFrom(isT, d, n, acc) ==
    IF n > Len(d)
    THEN acc
    ELSE ListFrom(isT, d, n + 1,
                  IF isT THEN TauriEntryStep(acc, d[n], "ok")
                         ELSE BrowserEntryStep(acc, d[n], "ok"))

\* a click on the component: setIsScanning(true), selectDirectory is called.
\* The picker is taken to be modal: no click arrives while one is open.
OverlapClick ==
    /\ Len(handlers) < MaxOps
    /\ \A n \in DOMAIN handlers : handlers[n].pc # "selecting"
    /\ isScanning' = TRUE
    /\ handlers' = Append(handlers, Invocation)
    /\ UNCHANGED <<env, store, faults, sequential>>

\* selectDirectory settles in one invocation
OverlapSelect ==
    /\ \E n \in DOMAIN handlers :
         /\ handlers[n].pc = "selecting"
         /\ \E o \in (IF tauri THEN DialogResults ELSE ShowDirectoryPickerResults) :
              LET sel == selectDirectory(tauri, o) IN
              IF sel.raised
              THEN /\ handlers' = [handlers EXCEPT
                                     ![n] = Finished(@, "error", ShowError(sel.thrown))]
                   /\ isScanning' = FALSE
              ELSE IF Falsy(sel.value)
              THEN /\ handlers' = [handlers EXCEPT
                                     ![n] = Finished(@, "cancelled", @.shown)]
                   /\ isScanning' = FALSE
              ELSE /\ handlers' = [handlers EXCEPT
                                     ![n] = [@ EXCEPT !.pc = "listing",
                                                      !.selectedDir = sel.value,
                                                      !.loading = TRUE]]
                   /\ UNCHANGED isScanning
    /\ UNCHANGED <<env, store, faults, sequential>>

\* readMarkdownFilesFromDirectory settles in one invocation: the list, or in
\* the native backend the rejection of readDir, which scanDirectory wraps
OverlapList ==
    /\ \E n \in DOMAIN handlers :
         /\ handlers[n].pc = "listing"
         /\ \E io \in {"ok", "dirFail"} :
              IF io = "ok"
              THEN LET fs == ListFrom(tauri, dir, 1, <<>>) IN
                   /\ handlers' = [handlers EXCEPT
                                     ![n] = [@ EXCEPT !.pc = "importing",
                                                      !.files = fs,
                                                      !.i = 1,
                                                      !.result = ScanResult(Len(fs))]]
                   /\ UNCHANGED <<isScanning, faults>>
              ELSE /\ tauri
                   /\ faults < MaxFaults
                   /\ faults' = faults + 1
                   /\ handlers' = [handlers EXCEPT
                          ![n] = Finished(@, "error",
                                    ShowError(ScanError(Error("Error",
                                        Str("Directory does not exist")))))]
                   /\ isScanning' = FALSE
    /\ UNCHANGED <<env, store, sequential>>

\* one iteration of scanDirectory's loop in one invocation
OverlapImport ==
    /\ \E n \in DOMAIN handlers :
         LET h == handlers[n] IN
         /\ h.pc = "importing"
         /\ h.i <= Len(h.files)
         /\ \E fault \in Faults :
              LET out == addBookFromFile(h.files[h.i], Store(books, progress), fault) IN
              /\ fault # "none" => out.faulted /\ faults < MaxFaults
              /\ faults' = IF out.faulted THEN faults + 1 ELSE faults
              /\ books' = out.st.books
              /\ progress' = out.st.progress
              /\ handlers' = [handlers EXCEPT
                     ![n] = [@ EXCEPT !.result = ScanClassify(@, h.files[h.i], out),
                                      !.i = NextIndex(h.i, h.files, out)]]
    /\ UNCHANGED <<env, isScanning, sequential>>

\* scanDirectory returns in one invocation: the loading message is closed, the
\* result shown, and finally sets isScanning to false
OverlapReturn ==
    /\ \E n \in DOMAIN handlers :
         /\ handlers[n].pc = "importing"
         /\ handlers[n].i > Len(handlers[n].files)
         /\ handlers' = [handlers EXCEPT
                ![n] = Finished(@, "summary", ShowResults(@.result))]
    /\ isScanning' = FALSE
    /\ UNCHANGED <<env, store, faults, sequential>>

OverlapNext ==
    \/ OverlapClick
    \/ OverlapSelect
    \/ OverlapList
    \/ OverlapImport
    \/ OverlapReturn

OverlapSpec == Init /\ [][OverlapNext]_vars

\* ------------------------------------------------------------- properties
IsImported(o)  == o.ok
IsDuplicate(o) == ~o.ok /\ o.thrown.message = BookAlreadyExists
IsFailed(o)    == ~o.ok /\ o.thrown.message # BookAlreadyExists

\* every settled ingestion the history holds
AllOutcomes ==
    Range(outcomes) \cup Range(batch.outcomes) \cup Range(api.outcomes)
        \cup UNION {Range(completed[n].outcomes) : n \in DOMAIN completed}

FilesOf(outs) == [n \in 1..Len(outs) |-> outs[n].file]
NamesOf(fs)   == [n \in 1..Len(fs) |-> fs[n].name]

\* name = prefix + suffix
HasSuffix(name, suffix) ==
    \E m \in 0..Len(name) : name = SubSeq(name, 1, m) \o suffix

\* a visited entry the listing has to emit: a regular file, named *.md or
\* *.markdown, whose read succeeded
Emittable(v) ==
    /\ v.entry.isFile
    /\ HasSuffix(v.entry.name, DotMd) \/ HasSuffix(v.entry.name, DotMarkdown)
    /\ v.io = "ok"

\* C1 as the spec states it, already restricted to the native backend and to
\* runs in which no I/O fails: of two scans of the directory in sequence, the
\* later one adds nothing and skips every candidate.
C1_RescanAllDuplicate ==
    (tauri /\ faults = 0) =>
        \A q \in DOMAIN completed :
            q > 1 => /\ completed[q].result.added = 0
                     /\ completed[q].result.skipped = completed[q].result.total

\* C1 (amended): of two scans of the directory in sequence, if the earlier one
\* returned no errors and every candidate of the later one was a candidate of
\* the earlier one, the later one has added = 0 and skipped = total.
C1_Rescan ==
    \A p, q \in DOMAIN completed :
        ( /\ p < q
          /\ completed[p].result.errors = <<>>
          /\ Range(completed[q].files) \subseteq Range(completed[p].files) )
        => /\ completed[q].result.added = 0
           /\ completed[q].result.skipped = completed[q].result.total

C1_Witness ==
    /\ Len(completed) = 2
    /\ completed[1].result.errors = <<>>
    /\ completed[1].result.added = 2
    /\ completed[2].result.total = 2
    /\ completed[2].result.skipped = 2

\* the store never holds two book records with the same fingerprint
UniqueFingerprints ==
    \A m, n \in DOMAIN books : books[m].fileHash = books[n].fileHash => m = n

C3_FailureIsolation ==
    /\ pc = "importing" => /\ i <= Len(files) + 1
                           /\ FilesOf(outcomes) = SubSeq(files, 1, i - 1)
    /\ \A n \in DOMAIN completed :
         /\ FilesOf(completed[n].outcomes) = completed[n].files
         /\ completed[n].result.total = Len(completed[n].files)
    /\ api.op = "batch" => /\ FilesOf(api.outcomes) = api.files
                           /\ api.result.total = Len(api.files)

C3_Witness ==
    \E n \in DOMAIN completed :
        /\ Len(completed[n].outcomes) = 2
        /\ IsFailed(completed[n].outcomes[1])
        /\ IsImported(completed[n].outcomes[2])
        /\ completed[n].result.total = 2
        /\ completed[n].result.added = 1
        /\ Len(completed[n].result.errors) = 1
        /\ completed[n].result.errors[1].filename = completed[n].files[1].name

\* C4: when the listing hits a directory-level failure, the scan returns no
\* summary and ingests no file.
C4_EnumerationAbort ==
    /\ \A n \in DOMAIN completed : ~completed[n].dirFailed
    /\ dirFailed => outcomes = <<>>

\* the errors list a sequence of outcomes calls for
ErrorEntries(outs) ==
    LET failed == SelectSeq(outs, IsFailed) IN
    [n \in 1..Len(failed) |->
        [filename |-> failed[n].file.name, error |-> failed[n].thrown.message]]

Classified(r, outs) ==
    /\ r.added = Cardinality({n \in DOMAIN outs : IsImported(outs[n])})
    /\ r.skipped = Cardinality({n \in DOMAIN outs : IsDuplicate(outs[n])})
    /\ r.errors = ErrorEntries(outs)

\* C5: every candidate processed updates the summary in exactly one way:
\* success counts in added only, 'Book already exists' in skipped only, any
\* other failure appends one {filename, error} entry with the candidate's name
\* and the message as thrown; in the loop of scanDirectory at every step, and in
\* the result of addBooksFromFiles.
C5_Classification ==
    /\ Classified(result, outcomes)
    /\ \A n \in DOMAIN completed : Classified(completed[n].result, completed[n].outcomes)
    /\ api.op = "batch" => Classified(api.result, api.outcomes)

C5_Witness ==
    /\ pc = "importing"
    /\ Len(outcomes) = 2
    /\ IsDuplicate(outcomes[1])
    /\ IsFailed(outcomes[2])
    /\ api.op = "batch"
    /\ \E n \in DOMAIN api.outcomes : IsFailed(api.outcomes[n])

NameCTxt == <<"c", ".", "t", "x", "t">>
NameDMD  == <<"d", ".", "M", "D">>
NameXMd  == <<"x", ".", "m", "d">>

\* the candidates are, in order, the names of the visited entries to emit
ListingCorrect(fs, vis) ==
    LET sel == SelectSeq(vis, Emittable) IN
    /\ NamesOf(fs) = [n \in 1..Len(sel) |-> sel[n].entry.name]
    /\ \A f \in Range(fs) : f.name \notin {NameCTxt, NameDMD, NameXMd}

\* C6: in both backends the listing emits exactly the visited regular files
\* whose name ends in '.md' or '.markdown' (case-sensitive) and whose read
\* succeeded, each once and in order; 'c.txt', 'd.MD' and the subdirectory
\* 'x.md' are never emitted.
C6_ExtensionFilter ==
    /\ ListingCorrect(markdownFiles, visited)
    /\ \A n \in DOMAIN completed : ListingCorrect(completed[n].files, completed[n].visited)

C6_Witness ==
    \E n \in DOMAIN completed :
        /\ Len(completed[n].visited) = 2
        /\ completed[n].visited[1].entry.name \in {NameCTxt, NameDMD, NameXMd}
        /\ completed[n].visited[2].io = "ok"
        /\ Len(completed[n].files) = 1
        /\ completed[n].files[1].name = completed[n].visited[2].entry.name

\* C7: when the user cancels the picker, the handler ends at once: no
\* directory is selected, scanDirectory is not invoked, no message is shown,
\* isScanning is reset and the store is as it was.
C7_CancelIsSilent ==
    [][ (pc = "selecting" /\ pc' # "selecting" /\ IsCancel(tauri, picker'))
        => /\ pc' = "idle"
           /\ Falsy(selectedDir')
           /\ scanCalls' = scanCalls
           /\ messages' = <<>>
           /\ ~loading'
           /\ ~isScanning'
           /\ books' = books
           /\ progress' = progress ]_vars

C7_Witness ==
    /\ IsCancel(tauri, picker)
    /\ pc = "idle"
    /\ ~tauri
    /\ Len(books) = 1

\* the candidates, entry by entry, as the browser branch has to emit them
RepairCorrect(fs, vis) ==
    LET sel == SelectSeq(vis, Emittable) IN
    /\ Len(fs) = Len(sel)
    /\ \A n \in 1..Len(sel) :
         LET e == sel[n].entry IN
         /\ (e.type = "" /\ HasSuffix(e.name, DotMd))
                => fs[n] = File(e.name, MarkdownType, e.bytes)
         /\ e.type # "" => fs[n] = File(e.name, e.type, e.bytes)

\* C8: in browser mode a matching entry whose file has an empty content type
\* and a name ending in '.md' is emitted with type 'text/markdown' and the same
\* name and bytes; a file with a non-empty content type is emitted unchanged.
C8_ContentTypeRepair ==
    ~tauri =>
        /\ RepairCorrect(markdownFiles, visited)
        /\ \A n \in DOMAIN completed :
             RepairCorrect(completed[n].files, completed[n].visited)

C8_Witness ==
    /\ ~tauri
    /\ \E n \in DOMAIN completed :
         /\ Len(completed[n].files) = 2
         /\ \E v \in Range(completed[n].visited) : v.entry.type = "" /\ Emittable(v)
         /\ \E v \in Range(completed[n].visited) : v.entry.type # "" /\ Emittable(v)
         /\ \E f \in Range(completed[n].files) : f.type = MarkdownType
         /\ \E f \in Range(completed[n].files) : f.type \notin {"", MarkdownType}

\* C9: the summary and the store a scan ends with are those addBooksFromFiles
\* yields for the scan's candidate sequence, from the store the import loop
\* started with and under the same store faults.
C9_BatchEquivalence ==
    \A n \in DOMAIN completed :
        LET c == completed[n]
            r == addBooksFromFiles(c.files, c.before, c.faultLog)
        IN /\ r.result = c.result
           /\ r.st = c.after

C9_Witness ==
    \E n \in DOMAIN completed :
        /\ completed[n].before.books # <<>>
        /\ completed[n].result.total = 2
        /\ completed[n].result.skipped = 1
        /\ Len(completed[n].result.errors) = 1

\* C10: every candidate the listing emits has a non-empty content type.
C10_NonEmptyContentType ==
    \A f \in Range(markdownFiles) \cup Range(files) : f.type # ""

\* the progress write of this ingestion failed; the call reaches that write
\* only after db.addBook returned
ProgressWriteFailed(o) == o.fault = "progress"

\* the summary entries of the outcomes of one loop, by position
ErrorAt(c, n) ==
    \E m \in DOMAIN c.result.errors :
        /\ c.result.errors[m].filename = c.files[n].name
        /\ c.result.errors[m].error = c.outcomes[n].thrown.message

\* C11: an ingestion whose progress write fails after db.addBook succeeded is
\* classified Failed with the error of the progress write, its book record
\* stays in the store and no progress record is written; a scan holding such
\* an ingestion lists the file in errors and counts as added only the
\* ingestions that succeeded.
C11_PartialFailure ==
    /\ \A o \in AllOutcomes :
         ProgressWriteFailed(o) =>
            /\ IsFailed(o)
            /\ Len(o.after.books) = Len(o.before.books) + 1
            /\ SubSeq(o.after.books, 1, Len(o.before.books)) = o.before.books
            /\ o.after.books[Len(o.after.books)].fileHash = Fingerprint(o.file.bytes)
            /\ o.after.progress = o.before.progress
    /\ \A q \in DOMAIN completed :
         LET c == completed[q] IN
         \A n \in DOMAIN c.outcomes :
            ProgressWriteFailed(c.outcomes[n]) =>
               /\ ErrorAt(c, n)
               /\ c.result.added = Cardinality({m \in DOMAIN c.outcomes :
                                                   IsImported(c.outcomes[m])})

C11_Witness ==
    \E q \in DOMAIN completed :
        /\ Len(completed[q].outcomes) = 1
        /\ ProgressWriteFailed(completed[q].outcomes[1])
        /\ completed[q].result.added = 0
        /\ Len(completed[q].result.errors) = 1
        /\ Len(completed[q].after.books) = Len(completed[q].before.books) + 1
        /\ Len(books) = 1
        /\ progress = {}

\* the ingestion ended in format validation or in parsing
EndedInUpload(o) == ~handleFileUpload(o.file).ok

\* C12: an ingestion classified Duplicate leaves the store as it found it,
\* and so does every ingestion that ends in format validation, in parsing or
\* in the duplicate check: of the failing ingestions only the one whose
\* progress write failed changes the store.
C12_DuplicateWritesNothing ==
    \A o \in AllOutcomes :
        /\ IsDuplicate(o) => o.after = o.before
        /\ EndedInUpload(o) => o.after = o.before
        /\ (~o.ok /\ o.after # o.before) => ProgressWriteFailed(o)

C12_Witness ==
    /\ \E o \in AllOutcomes :
         /\ IsDuplicate(o)
         /\ o.before.books # <<>>
         /\ o.before.progress # {}
         /\ o.after = o.before
    /\ \E o \in AllOutcomes :
         /\ EndedInUpload(o)
         /\ o.before.books # <<>>

\* the identifiers of the book records of a store
BookIds(st) == {st.books[n].id : n \in DOMAIN st.books}

\* the call persisted a book record: one record more, the earlier ones as
\* they were
PersistedBook(o) ==
    /\ Len(o.after.books) = Len(o.before.books) + 1
    /\ SubSeq(o.after.books, 1, Len(o.before.books)) = o.before.books

\* C13: a call changes the book records only by persisting one record, and
\* only for a file whose validation and parsing succeeded, the record
\* carrying what parsing produced; it changes the progress records only
\* after persisting the book, and only by adding the id of the record just
\* persisted; a file that fails validation or parsing causes no write; a
\* call that returns has made both writes; and the store never holds a
\* progress record for an id without a book record.
C13_StepOrder ==
    /\ progress \subseteq BookIds(Store(books, progress))
    /\ \A o \in AllOutcomes :
         LET up == handleFileUpload(o.file)
             last == o.after.books[Len(o.after.books)]
         IN /\ o.after.books # o.before.books =>
                  /\ PersistedBook(o)
                  /\ up.ok
                  /\ last.fileHash = up.value.fileHash
                  /\ last.title = up.value.title
            /\ o.after.progress # o.before.progress =>
                  /\ PersistedBook(o)
                  /\ last.id \notin BookIds(o.before)
                  /\ o.after.progress = o.before.progress \cup {last.id}
            /\ ~up.ok => o.after = o.before
            /\ o.ok => /\ PersistedBook(o)
                       /\ o.after.progress # o.before.progress
            /\ o.after.progress \subseteq BookIds(o.after)

C13_Witness ==
    /\ \E o \in AllOutcomes :
         /\ o.ok
         /\ o.before.books # <<>>
         /\ o.after.progress # o.before.progress
    /\ \E o \in AllOutcomes : ProgressWriteFailed(o)
    /\ \E o \in AllOutcomes : EndedInUpload(o)

\* the visited entry passed the filter and its read failed
ReadFailed(v) == v.io = "readFail"

\* the visited entry passed the filter and its read succeeded
Readable(v) ==
    /\ v.io = "ok"
    /\ v.entry.isFile
    /\ HasSuffix(v.entry.name, DotMd) \/ HasSuffix(v.entry.name, DotMarkdown)

\* C14: in both backends, the read failure of one entry leaves the listing
\* running: the loop visits one entry per iteration whatever the read did, a
\* listing that met no directory-level failure has visited the whole
\* directory, the entry whose read failed is not among the candidates, every
\* other readable matching entry is, and total is the number of candidates
\* emitted.
C14_ReadIsolation ==
    /\ pc = "reading" => Len(visited) = k - 1
    /\ \A v \in Range(visited) : ReadFailed(v) => v.entry.name \notin Range(NamesOf(markdownFiles))
    /\ \A q \in DOMAIN completed :
         LET c == completed[q] IN
         /\ ~c.dirFailed => NamesOf(dir) = [n \in 1..Len(c.visited) |-> c.visited[n].entry.name]
         /\ \A v \in Range(c.visited) :
              /\ ReadFailed(v) => v.entry.name \notin Range(NamesOf(c.files))
              /\ Readable(v) => v.entry.name \in Range(NamesOf(c.files))
         /\ c.result.total = Cardinality({n \in DOMAIN c.visited : Readable(c.visited[n])})
         /\ c.result.total = Len(c.files)

C14_Witness ==
    \E q \in DOMAIN completed :
        /\ Len(completed[q].visited) = 2
        /\ ReadFailed(completed[q].visited[1])
        /\ Readable(completed[q].visited[2])
        /\ completed[q].result.total = 1
        /\ completed[q].files[1].name = completed[q].visited[2].entry.name

\* the position of a name in a sequence of distinct names
PositionOf(names, name) == CHOOSE n \in DOMAIN names : names[n] = name

\* the positions of the failed outcomes, ascending
FailedPositions(outs) ==
    LET FailedAt(n) == IsFailed(outs[n]) IN
    SelectSeq([n \in 1..Len(outs) |-> n], FailedAt)

\* the candidates keep the order of the directory, the n-th call made is the
\* call for the n-th candidate, and the m-th error is that of the m-th
\* failing position
InEnumerationOrder(fs, outs, errors) ==
    /\ \A m, n \in DOMAIN fs :
         m < n => PositionOf(NamesOf(dir), fs[m].name) < PositionOf(NamesOf(dir), fs[n].name)
    /\ \A n \in DOMAIN outs : outs[n].file = fs[n]
    /\ Len(errors) = Len(FailedPositions(outs))
    /\ \A m \in DOMAIN errors : errors[m].filename = fs[FailedPositions(outs)[m]].name

\* C15: a scan calls addBookFromFile once per candidate, in the order of the
\* listing, which is the order of the directory: while the loop runs the
\* calls settled are those of the candidates before the loop index, the only
\* call that can be unsettled is that of the candidate at the index, and the
\* errors list holds the failing files by ascending position; a returned
\* summary stands for one call per candidate.
C15_EnumerationOrder ==
    /\ pc = "importing" =>
         /\ Len(outcomes) = i - 1
         /\ inFlight \subseteq {i}
         /\ InEnumerationOrder(files, outcomes, result.errors)
    /\ \A q \in DOMAIN completed :
         LET c == completed[q] IN
         /\ Len(c.outcomes) = Len(c.files)
         /\ InEnumerationOrder(c.files, c.outcomes, c.result.errors)

C15_Witness ==
    \E q \in DOMAIN completed :
        /\ Len(completed[q].files) = 2
        /\ Len(completed[q].result.errors) = 2
        /\ completed[q].files[1].name # completed[q].files[2].name
        /\ completed[q].result.errors[1].filename = completed[q].files[1].name
        /\ completed[q].result.errors[2].filename = completed[q].files[2].name

\* the calls of the running loops that are issued and not settled
InFlightCalls ==
    IF pc = "importing" THEN inFlight
    ELSE IF pc = "batch" THEN batch.inFlight
    ELSE {}

\* the stepwise call of addBooksFromFiles ends with what the function computes
BatchLoopAgrees ==
    (api.op = "batch" /\ pc # "batch" /\ api.files = batch.files
        /\ api.before = batch.before) =>
        LET r == addBooksFromFiles(api.files, api.before, batch.sched) IN
        /\ r.result = api.result
        /\ r.outcomes = api.outcomes

\* C16: while scanDirectory or addBooksFromFiles runs, at most one call of
\* addBookFromFile is issued and not settled, and it is the call for the file
\* at the loop index; the store changes only in the step in which that one
\* call settles, so the writes of two calls of one scan never interleave.
C16_OneInFlight ==
    /\ [](/\ Cardinality(inFlight) <= 1
          /\ Cardinality(batch.inFlight) <= 1
          /\ pc = "importing" => inFlight = {n \in DOMAIN files : n = i}
          /\ pc = "batch" => batch.inFlight = {n \in DOMAIN batch.files : n = batch.n})
    /\ [][ ((books' # books \/ progress' # progress) /\ pc # "idle") =>
              /\ Cardinality(InFlightCalls) = 1
              /\ InFlightCalls' \cap InFlightCalls = {}
              /\ pc = "importing" => Len(outcomes') = Len(outcomes) + 1
              /\ pc = "batch" => Len(batch.outcomes') = Len(batch.outcomes) + 1 ]_vars

C16_Witness ==
    /\ pc = "importing"
    /\ Len(files) = 2
    /\ inFlight = {2}
    /\ Len(books) = 1
    /\ progress # {}

\* the phase of the scan the handler is in: 0 Idle (no scan running),
\* 1 Enumerating, 2 Importing
Phase ==
    CASE pc \in {"listing", "reading", "listed"} -> 1
      [] pc = "importing" -> 2
      [] OTHER -> 0

ScanRunning == Phase # 0

\* C17: a running scan never moves to an earlier phase: it leaves
\* Enumerating only for Importing or, on a directory-level failure, for the
\* end of the scan with an error shown; within Enumerating the entry index
\* only advances; within Importing every step settles the file at the index
\* and moves the index to the next file, so no file is tried twice; it leaves
\* Importing only past the last file, returning a summary. With every I/O
\* step settling, a running scan ends.
C17_SinglePass ==
    /\ [][ /\ (ScanRunning /\ pc' # "idle") => Phase' >= Phase
           /\ (Phase = 1 /\ Phase' = 1) => k' >= k /\ Len(visited') >= Len(visited)
           /\ (Phase = 1 /\ pc' = "idle") =>
                 /\ dirFailed'
                 /\ Len(messages') = Len(messages) + 1
                 /\ completed' = completed
           /\ (Phase = 1 /\ Phase' = 2) => i' = 1 /\ outcomes' = <<>>
           /\ (Phase = 2 /\ Phase' = 2) =>
                 /\ i' = i + 1
                 /\ outcomes' = Append(outcomes, outcomes'[i])
                 /\ outcomes'[i].file = files[i]
                 /\ files' = files
           /\ (Phase = 2 /\ pc' = "idle") =>
                 /\ i = Len(files) + 1
                 /\ Len(completed') = Len(completed) + 1
                 /\ completed'[Len(completed')].result = result
         ]_vars
    /\ ScanRunning ~> (pc = "idle")

C17_Witness ==
    /\ pc = "idle"
    /\ scanCalls = 2
    /\ Len(completed) = 1
    /\ completed[1].result.total = 2
    /\ Len(completed[1].outcomes) = 2
    /\ dirFailed

\* the branch of readMarkdownFilesFromDirectory that reads the directory
ReadBranch == IF tauri THEN "native" ELSE "handle"

\* C18: whenever a scan started from the picker is listing or importing, the
\* reference it was given is a non-empty path if the native readDir/readFile
\* branch reads it and a directory handle if the handle-iteration branch
\* reads it; no reference of the other kind, and no null, reaches a listing.
C18_BackendConsistency ==
    ScanRunning =>
        /\ ReadBranch = "native" => selectedDir.variant = "path" /\ selectedDir.path # ""
        /\ ReadBranch = "handle" => selectedDir = HandleRef
        /\ pc = "listing" => ReadBranch = "native"
        /\ pc = "listed" => ReadBranch = "handle"

C18_Witness ==
    /\ pc = "reading"
    /\ k = 2
    /\ visited # <<>>
    /\ ReadBranch = "native"
    /\ selectedDir = PathRef(DirPath)
    /\ picker.kind = "array"

\* the 'No books found in the selected directory' message
IsNoBooksFound(m) ==
    m.kind = "info" /\ m.text = <<"No books found in the selected directory">>

\* C19: the message shown for a returned summary is 'No books found in the
\* selected directory' exactly when total = 0; when total > 0 and no
\* candidate was added or skipped the message is the warning carrying the
\* number of errors, which is total; and the message is the last one shown
\* when the scan returns.
C19_NoBooksIffEmpty ==
    /\ \A q \in DOMAIN completed :
         LET c == completed[q] IN
         /\ IsNoBooksFound(c.shown) <=> c.result.total = 0
         /\ (c.result.total > 0 /\ c.result.added = 0 /\ c.result.skipped = 0) =>
               /\ c.shown.kind = "warning"
               /\ c.shown.errors = Len(c.result.errors)
               /\ c.shown.errors = c.result.total
    /\ (pc = "idle" /\ completed # <<>> /\ messages # <<>>
          /\ messages[Len(messages)].kind \in {"info", "warning", "success"}) =>
         messages[Len(messages)] = completed[Len(completed)].shown

C19_Witness ==
    /\ Len(completed) = 2
    /\ completed[1].result.total = 0
    /\ IsNoBooksFound(completed[1].shown)
    /\ completed[2].result.total = 2
    /\ completed[2].result.added = 0
    /\ completed[2].result.skipped = 0
    /\ completed[2].shown.kind = "warning"
    /\ completed[2].shown.errors = 2

\* the candidates a summary accounts for
Accounted(r) == r.added + r.skipped + Len(r.errors)

\* C20: every summary scanDirectory or addBooksFromFiles returns has
\* total = added + skipped + length(errors), total being the number of
\* candidates and of calls made; while either loop runs, total is the number
\* of candidates and added + skipped + length(errors) is the number of
\* candidates the loop has gone past.
C20_Conservation ==
    /\ \A q \in DOMAIN completed :
         LET c == completed[q] IN
         /\ c.result.total = Accounted(c.result)
         /\ c.result.total = Len(c.files)
         /\ c.result.total = Len(c.outcomes)
    /\ api.op = "batch" =>
         /\ api.result.total = Accounted(api.result)
         /\ api.result.total = Len(api.files)
         /\ api.result.total = Len(api.outcomes)
    /\ pc = "importing" =>
         /\ result.total = Len(files)
         /\ Accounted(result) = i - 1
         /\ Accounted(result) = Len(outcomes)
    /\ pc = "batch" =>
         /\ batch.result.total = Len(batch.files)
         /\ Accounted(batch.result) = batch.n - 1
         /\ Accounted(batch.result) = Len(batch.outcomes)

C20_Witness ==
    /\ Len(completed) = 1
    /\ completed[1].result.total = 2
    /\ completed[1].result.added = 1
    /\ Len(completed[1].result.errors) = 1
    /\ pc = "importing"
    /\ Len(files) = 2
    /\ i = 2
    /\ result.skipped = 1

\* the invocations of handleScanDirectory in flight
RunningHandlers == {n \in DOMAIN handlers : Running(handlers[n])}

\* the invocations whose scanDirectory call has been made and has not returned
ScanningHandlers == {n \in DOMAIN handlers : handlers[n].pc \in {"listing", "importing"}}

\* C21: at no time are two invocations of handleScanDirectory in flight; a
\* click that arrives while one is in flight opens no picker and starts no
\* scanDirectory.
C21_SingleScanInFlight ==
    /\ Cardinality(RunningHandlers) <= 1
    /\ Cardinality(ScanningHandlers) <= 1

\* two scanDirectory calls of the component import into the one store at once
TwoScansImporting ==
    /\ Len(handlers) = 2
    /\ handlers[1].pc = "importing" /\ handlers[1].i = 2
    /\ handlers[2].pc = "importing" /\ handlers[2].i = 2
    /\ Len(handlers[1].files) = 2

\* what holds of the indicator whatever the clicks: it is off once every
\* invocation has left through finally
IndicatorOffWhenIdle == RunningHandlers = {} => ~isScanning

\* the indicator with one invocation at a time: on exactly while the handler
\* runs
IndicatorSequential == isScanning <=> pc \in {"selecting", "listing", "reading",
                                              "listed", "importing"}

\* C22: for any sequence of clicks, isScanning is true whenever an invocation
\* of handleScanDirectory is in flight, and false once all have finished.
C22_ScanningIndicator ==
    /\ RunningHandlers # {} => isScanning
    /\ RunningHandlers = {} => ~isScanning

====
